---- MODULE Spec2Model ----
(***************************************************************************)
(* Model of scvi-tools' core abstractions:                                 *)
(*   scvi/core/data_loaders/scvi_data_loader.py  BatchSampler,             *)
(*                                               ScviDataLoader            *)
(*   scvi/compose/_base_module.py                SCVILoss, AbstractVAE     *)
(*                                                                         *)
(* Python values are encoded as follows.                                   *)
(*   None            the empty tuple <<>> ; any other optional value x is  *)
(*                   the one-element tuple <<x>>                           *)
(*   numpy array /   [form, elem, data]: form is "ndarray" or "list",      *)
(*   python list     elem the element type ("bool" or "int64"), data the   *)
(*                   elements as integers (True is 1, False is 0)          *)
(*   dict            a sequence of [key, value] entries in insertion order *)
(*                                                                         *)
(* The annotated-data container is [uns_scvi, data_registry, n_obs]:       *)
(* whether adata.uns has the "_scvi" entry, the keys of                    *)
(* adata.uns["_scvi"]["data_registry"], and the number of observations.    *)
(* setup_anndata() writes the "_scvi" entry together with its registry,    *)
(* so a container with uns_scvi has one (possibly lacking keys).           *)
(* The auto_move_data decorator of forward moves tensors between devices   *)
(* and leaves the stage sequence alone; it is not modelled.                *)
(***************************************************************************)
EXTENDS Integers, Sequences, FiniteSets

VARIABLES
    \* ---- scvi_data_loader.py
    adata,        \* the annotated-data container handed to ScviDataLoader
    args,         \* None, or the arguments of the ScviDataLoader(...) call
    loader,       \* None, or the constructed ScviDataLoader (self)
    error,        \* None, or the exception raised by ScviDataLoader.__init__
    sampler,      \* None, or the BatchSampler object
    data_iter,    \* None, or the iterator returned by the last __iter__
    yielded,      \* batches pulled from data_iter so far
    exhausted,    \* data_iter raised StopIteration
    traversals,   \* number of __iter__ calls made
    len_result,   \* None, or the value returned by the last __len__
    \* ---- _base_module.py, SCVILoss
    loss_args,    \* the four arguments SCVILoss was constructed with
    scvi_loss,    \* the SCVILoss object: its four private dicts
    last_read,    \* None, or the last property read and the value returned
    reads,        \* number of property reads made
    \* ---- _base_module.py, AbstractVAE
    cls,          \* the hooks the model class overrides
    instance,     \* None, or the outcome of instantiating cls
    fwd,          \* None, or the record of the last forward() call
    n_forward     \* number of forward() calls made

loaderVars == <<adata, args, loader, error>>
samplerVars == <<sampler, data_iter, yielded, exhausted, traversals, len_result>>
lossVars == <<loss_args, scvi_loss, last_read, reads>>
vaeVars == <<cls, instance, fwd, n_forward>>
vars == <<loaderVars, samplerVars, lossVars, vaeVars>>

None == <<>>
Some(x) == <<x>>

\* ---------------------------------------------------------------- bounds
MaxLen == 3          \* longest index sequence given to a sampler directly
MaxIdx == 1          \* largest index value in such a sequence
MaxBatch == 3        \* largest batch size
MaxObs == 2          \* largest number of observations in a container
MaxTraversals == 2   \* __iter__ calls per behaviour
MaxVal == 1          \* largest value of a loss term
MaxReads == 2        \* property reads per behaviour
MaxForward == 2      \* forward() calls per behaviour

\* ------------------------------------------------------- python helpers
Min(a, b) == IF a < b THEN a ELSE b

\* s[i:j] for 0 <= i <= j on a sequence (python slice, clamped at the end)
Slice(s, i, j) == SubSeq(s, i + 1, Min(j, Len(s)))

\* (mutant) range that stops before a final partial step
Range_fullStepsOnly(n, step) == [k \in 1..(n \div step) |-> (k - 1) * step]

\* range(0, n, step) as a sequence
Range(n, step) ==
    LET cnt == (n + step - 1) \div step
    IN  [k \in 1..cnt |-> (k - 1) * step]

\* torch.arange(n).tolist()
Arange(n) == [k \in 1..n |-> k - 1]

\* the possible results of torch.randperm(n).tolist()
RandPerm(n) ==
    {p \in [1..n -> 0..(n - 1)] : \A a, b \in 1..n : p[a] = p[b] => a = b}

\* arr[positions] : numpy fancy indexing with a list of 0-based positions
Take(data, positions) == [k \in 1..Len(positions) |-> data[positions[k] + 1]]

NdArray(elem, data) == [form |-> "ndarray", elem |-> elem, data |-> data]

\* ---------------------------------------------------------- BatchSampler
BatchSampler_init(indices, batch_size, shuffle) ==
    [indices |-> indices, batch_size |-> batch_size, shuffle |-> shuffle]

\* the idx lists __iter__ may draw
IterOrders(self) ==
    IF self.shuffle = TRUE
    THEN RandPerm(Len(self.indices.data))
    ELSE {Arange(Len(self.indices.data))}

\* the list comprehension of __iter__
IterBatches(self, idx) ==
    LET starts == Range(Len(idx), self.batch_size)
    IN  [k \in 1..Len(starts) |->
            Take(self.indices.data,
                 Slice(idx, starts[k], starts[k] + self.batch_size))]

\* (mutant) a length that counts the final partial batch
BatchSampler_len_ceil(self) ==
    (Len(self.indices.data) + self.batch_size - 1) \div self.batch_size

BatchSampler_len(self) == Len(self.indices.data) \div self.batch_size

BatchSampler_iter ==
    /\ sampler # None
    /\ traversals < MaxTraversals
    /\ \E idx \in IterOrders(sampler[1]) :
          data_iter' = Some([items |-> IterBatches(sampler[1], idx), pos |-> 0])
    /\ yielded' = <<>>
    /\ exhausted' = FALSE
    /\ traversals' = traversals + 1
    /\ UNCHANGED <<sampler, len_result, loaderVars, lossVars, vaeVars>>

\* next(data_iter): the consumer pulls one batch, or meets StopIteration
Iterator_next ==
    /\ data_iter # None
    /\ ~exhausted
    /\ LET it == data_iter[1]
       IN  IF it.pos < Len(it.items)
           THEN /\ yielded' = Append(yielded, it.items[it.pos + 1])
                /\ data_iter' = Some([it EXCEPT !.pos = it.pos + 1])
                /\ exhausted' = FALSE
           ELSE /\ exhausted' = TRUE
                /\ UNCHANGED <<yielded, data_iter>>
    /\ UNCHANGED <<sampler, traversals, len_result, loaderVars, lossVars,
                   vaeVars>>

BatchSampler_len_call ==
    /\ sampler # None
    /\ len_result' = Some(BatchSampler_len(sampler[1]))
    /\ UNCHANGED <<sampler, data_iter, yielded, exhausted, traversals,
                   loaderVars, lossVars, vaeVars>>

\* ----------------------------------------------- sampler specification
IndexSeqs == UNION {[1..n -> 0..MaxIdx] : n \in 0..MaxLen}

NoContainer == [uns_scvi |-> FALSE, data_registry |-> {}, n_obs |-> 0]

\* the parts of the state a specification does not use
LoaderIdle == adata = NoContainer /\ args = None /\ loader = None /\ error = None
SamplerIdle ==
    /\ sampler = None /\ data_iter = None /\ yielded = <<>>
    /\ exhausted = FALSE /\ traversals = 0 /\ len_result = None
LossIdle ==
    /\ loss_args = None /\ scvi_loss = None /\ last_read = None /\ reads = 0
VaeIdle == cls = {} /\ instance = None /\ fwd = None /\ n_forward = 0

InitSampler ==
    /\ LoaderIdle /\ LossIdle /\ VaeIdle
    /\ \E ix \in IndexSeqs, b \in 1..MaxBatch, sh \in BOOLEAN :
          sampler = Some(BatchSampler_init(NdArray("int64", ix), b, sh))
    /\ data_iter = None
    /\ yielded = <<>>
    /\ exhausted = FALSE
    /\ traversals = 0
    /\ len_result = None

NextSampler == BatchSampler_iter \/ Iterator_next \/ BatchSampler_len_call

SpecSampler == InitSampler /\ [][NextSampler]_vars

\* -------------------------------------------------------- ScviDataLoader
\* _CONSTANTS.X_KEY ... LABELS_KEY with the dtypes of the default dict
DefaultDataAndAttributes ==
    << [key |-> "X", value |-> "float32"],
       [key |-> "batch", value |-> "int64"],
       [key |-> "local_l_mean", value |-> "float32"],
       [key |-> "local_l_var", value |-> "float32"],
       [key |-> "labels", value |-> "int64"] >>

\* dict.keys() as a set
Keys(d) == {d[k].key : k \in 1..Len(d)}

\* the raise of line 91 and the raise of lines 106-110
NotConfiguredError ==
    [type |-> "ValueError",
     msg |-> "Please run setup_anndata() on your anndata object first.",
     key |-> ""]
MissingFieldError(key) ==
    [type |-> "ValueError",
     msg |-> "{} required for model but not included when setup_anndata was run",
     key |-> key]

\* (mutant) the set-up check left out
NotSetUp_never(container) == FALSE

\* line 90: "_scvi" not in adata.uns.keys()
NotSetUp(container) == ~container.uns_scvi

\* self._data_and_attributes
ResolveDataAndAttributes(data_and_attributes) ==
    IF data_and_attributes = None
    THEN DefaultDataAndAttributes
    ELSE data_and_attributes[1]

\* (mutant) only the first key is looked up
MissingPositions_firstOnly(d, registry) ==
    {k \in 1..Min(1, Len(d)) : d[k].key \notin registry}

\* the positions of the keys of d, in dict order, that the registry lacks
MissingPositions(d, registry) == {k \in 1..Len(d) : d[k].key \notin registry}

\* the dataset view: it is built from the container and the getitem_tensors
\* argument, and its length is the container's number of observations
ScviDataset(container, getitem_tensors) ==
    [getitem_tensors |-> getitem_tensors, len |-> container.n_obs]

\* np.where(mask)[0].ravel()
RECURSIVE WherePositions(_, _)
WherePositions(data, from) ==
    IF from > Len(data) THEN <<>>
    ELSE (IF data[from] # 0 THEN <<from - 1>> ELSE <<>>)
         \o WherePositions(data, from + 1)

\* hasattr(indices, "dtype") and indices.dtype is np.dtype("bool")
IsBoolArray(indices) == indices.form = "ndarray" /\ indices.elem = "bool"

\* np.asarray: an array is kept; a list becomes an array of its element
\* type (an empty list an empty float64 array)
AsArray(x) ==
    NdArray(IF x.form = "list" /\ x.data = <<>> THEN "float64" ELSE x.elem,
            x.data)

\* lines 131-133: the conversion of explicit indices
ConvertIndices(indices) ==
    AsArray(IF IsBoolArray(indices)
            THEN NdArray("int64", WherePositions(indices.data, 1))
            ELSE indices)

\* (mutant) the shuffle flag honoured on the explicit-indices path too
SamplerKwargs_flagHonoured(dataset, shuffle, indices, batch_size) ==
    IF indices = None
    THEN <<None, [indices |-> NdArray("int64", Arange(dataset.len)),
                  batch_size |-> batch_size, shuffle |-> shuffle]>>
    ELSE <<Some(ConvertIndices(indices[1])),
           [indices |-> ConvertIndices(indices[1]),
            batch_size |-> batch_size, shuffle |-> shuffle]>>

\* lines 116-138: the pair <<indices, sampler_kwargs>>
SamplerKwargs(dataset, shuffle, indices, batch_size) ==
    IF indices = None
    THEN LET inds == NdArray("int64", Arange(dataset.len))
         IN  IF shuffle
             THEN <<None, [indices |-> inds, batch_size |-> batch_size,
                           shuffle |-> TRUE]>>
             ELSE <<None, [indices |-> inds, batch_size |-> batch_size,
                           shuffle |-> FALSE]>>
    ELSE LET conv == ConvertIndices(indices[1])
         IN  <<Some(conv), [indices |-> conv, batch_size |-> batch_size,
                            shuffle |-> TRUE]>>

\* the dataset view of line 112
LoaderDataset(container, data_and_attributes, resolved) ==
    ScviDataset(container, data_and_attributes)

\* ScviDataLoader.__init__: the exception raised, or the object built
ScviDataLoader_new(container, shuffle, indices, batch_size, daa) ==
    LET data_and_attributes == daa
        resolved == ResolveDataAndAttributes(data_and_attributes)
        missing == MissingPositions(resolved, container.data_registry)
        first == CHOOSE k \in missing : \A j \in missing : k <= j
        dataset == LoaderDataset(container, data_and_attributes, resolved)
        kw == SamplerKwargs(dataset, shuffle, indices, batch_size)
    IN  IF NotSetUp(container)
        THEN [raised |-> Some(NotConfiguredError), self |-> None,
              sampler |-> None]
        ELSE IF missing # {}
        THEN [raised |-> Some(MissingFieldError(resolved[first].key)),
              self |-> None, sampler |-> None]
        ELSE [raised |-> None,
              self |-> Some([_data_and_attributes |-> resolved,
                             dataset |-> dataset,
                             indices |-> kw[1],
                             sampler_kwargs |-> kw[2]]),
              sampler |-> Some(BatchSampler_init(kw[2].indices,
                                                 kw[2].batch_size,
                                                 kw[2].shuffle))]

\* the arguments tried
AllKeys == Keys(DefaultDataAndAttributes) \cup {"protein_expression"}

Registries ==
    {AllKeys \ m : m \in {x \in SUBSET AllKeys : Cardinality(x) <= 1}}
        \cup {{}, {"X"}}

DataAndAttributesArgs ==
    { None,
      Some(<<>>),
      Some(<< [key |-> "X", value |-> "float32"] >>),
      Some(<< [key |-> "X", value |-> "float32"],
              [key |-> "protein_expression", value |-> "float32"] >>),
      Some(<< [key |-> "labels", value |-> "int64"],
              [key |-> "batch", value |-> "int64"] >>),
      Some(DefaultDataAndAttributes) }

\* a boolean mask of the dataset's length, as an array or as a plain list,
\* or at most n_obs positions, as an array or as a plain list
IndicesArgs(n_obs) ==
    {None}
    \cup {Some([form |-> "ndarray", elem |-> "bool", data |-> m]) :
            m \in [1..n_obs -> {0, 1}]}
    \cup {Some([form |-> "list", elem |-> "bool", data |-> m]) :
            m \in [1..n_obs -> {0, 1}] \ {<<>>}}
    \cup {Some([form |-> f, elem |-> "int64", data |-> ix]) :
            f \in {"ndarray", "list"},
            ix \in UNION {[1..n -> 0..(n_obs - 1)] : n \in 0..n_obs}}

ScviDataLoader_init ==
    /\ loader = None
    /\ error = None
    /\ \E shuffle \in BOOLEAN, indices \in IndicesArgs(adata.n_obs),
          batch_size \in 1..MaxBatch,
          data_and_attributes \in DataAndAttributesArgs :
          LET r == ScviDataLoader_new(adata, shuffle, indices, batch_size,
                                      data_and_attributes)
          IN  /\ error' = r.raised
              /\ loader' = r.self
              /\ sampler' = r.sampler
              /\ args' = Some([shuffle |-> shuffle, indices |-> indices,
                               batch_size |-> batch_size,
                               data_and_attributes |-> data_and_attributes])
    /\ UNCHANGED <<adata, data_iter, yielded, exhausted, traversals,
                   len_result, lossVars, vaeVars>>

InitLoader ==
    /\ adata \in
          {[uns_scvi |-> FALSE, data_registry |-> {}, n_obs |-> n] :
              n \in 0..MaxObs}
          \cup {[uns_scvi |-> TRUE, data_registry |-> r, n_obs |-> n] :
                  r \in Registries, n \in 0..MaxObs}
    /\ loader = None
    /\ error = None
    /\ sampler = None
    /\ args = None
    /\ data_iter = None
    /\ yielded = <<>>
    /\ exhausted = FALSE
    /\ traversals = 0
    /\ len_result = None
    /\ LossIdle /\ VaeIdle

NextLoader == ScviDataLoader_init \/ BatchSampler_len_call

SpecLoader == InitLoader /\ [][NextLoader]_vars

\* --------------------------------------------------------------- SCVILoss
\* a constructor argument: a bare value, or a dict of named terms
Bare(v) == [isdict |-> FALSE, bare |-> v, items |-> <<>>]
Dict(items) == [isdict |-> TRUE, bare |-> 0, items |-> items]

\* x if isinstance(x, dict) else dict(name=x)
AsDict(x, name) ==
    IF x.isdict THEN x.items ELSE << [key |-> name, value |-> x.bare] >>

SCVILoss_init(loss, reconstruction_loss, kl_local, kl_global) ==
    [_loss |-> AsDict(loss, "loss"),
     _reconstruction_loss |-> AsDict(reconstruction_loss, "reconstruction_loss"),
     _kl_local |-> AsDict(kl_local, "kl_local"),
     _kl_global |-> AsDict(kl_global, "kl_global")]

\* _get_dict_sum: sum = 0.0, then sum += value over dictionary.values()
RECURSIVE DictSumFrom(_, _, _)
DictSumFrom(dictionary, k, sum) ==
    IF k > Len(dictionary) THEN sum
    ELSE DictSumFrom(dictionary, k + 1, sum + dictionary[k].value)

\* (mutant) sum = value in place of sum += value
_get_dict_sum_overwrite(dictionary) ==
    IF dictionary = <<>> THEN 0 ELSE dictionary[Len(dictionary)].value

_get_dict_sum(dictionary) == DictSumFrom(dictionary, 1, 0)

\* the four properties
Loss_loss(self) == _get_dict_sum(self._loss)
Loss_reconstruction_loss(self) == _get_dict_sum(self._reconstruction_loss)
Loss_kl_local(self) == _get_dict_sum(self._kl_local)
Loss_kl_global(self) == _get_dict_sum(self._kl_global)

Read(name, value) ==
    /\ scvi_loss # None
    /\ reads < MaxReads
    /\ last_read' = Some([name |-> name, value |-> value])
    /\ reads' = reads + 1
    /\ UNCHANGED <<loss_args, scvi_loss, loaderVars, samplerVars, vaeVars>>

ReadLoss == Read("loss", Loss_loss(scvi_loss[1]))
ReadReconstructionLoss ==
    Read("reconstruction_loss", Loss_reconstruction_loss(scvi_loss[1]))
ReadKlLocal == Read("kl_local", Loss_kl_local(scvi_loss[1]))
ReadKlGlobal == Read("kl_global", Loss_kl_global(scvi_loss[1]))

TermValues == 0..MaxVal
TermNames == <<"a", "b">>

\* the dicts over a prefix-closed choice of the term names
TermDicts ==
    {<<>>}
    \cup {<< [key |-> TermNames[1], value |-> v] >> : v \in TermValues}
    \cup {<< [key |-> TermNames[1], value |-> v],
             [key |-> TermNames[2], value |-> w] >> :
            v \in TermValues, w \in TermValues}

LossArgs == {Bare(v) : v \in TermValues} \cup {Dict(d) : d \in TermDicts}

InitLoss ==
    /\ LoaderIdle /\ SamplerIdle /\ VaeIdle
    /\ \E l \in LossArgs, r \in LossArgs, kl \in LossArgs, kg \in LossArgs :
          /\ loss_args = Some([loss |-> l, reconstruction_loss |-> r,
                               kl_local |-> kl, kl_global |-> kg])
          /\ scvi_loss = Some(SCVILoss_init(l, r, kl, kg))
    /\ last_read = None
    /\ reads = 0

NextLoss == ReadLoss \/ ReadReconstructionLoss \/ ReadKlLocal \/ ReadKlGlobal

SpecLoss == InitLoss /\ [][NextLoss]_vars

\* ------------------------------------------------------------ AbstractVAE
\* the six methods decorated with @abstractmethod
Hooks == {"_get_inference_input", "inference", "_get_generative_input",
          "generative", "loss", "sample"}

\* class AbstractVAE(nn.Module): the metaclass is nn.Module's, plain `type`,
\* so the @abstractmethod marks are never collected into __abstractmethods__
MetaclassIsABCMeta == FALSE

\* instantiating a class that overrides the hooks in `overridden`
AbstractVAE_new(overridden) ==
    IF MetaclassIsABCMeta /\ Hooks \ overridden # {}
    THEN [ok |-> FALSE,
          raised |-> Some([type |-> "TypeError",
                           msg |-> "Can't instantiate abstract class"])]
    ELSE [ok |-> TRUE, raised |-> None]

\* _get_dict_if_none
_get_dict_if_none(param) == IF param = None THEN "{}" ELSE param[1]

\* One call of a hook. A hook the class does not override runs the base
\* body, `pass`, and returns None. An overridden hook is the subclass's code:
\* it returns its output, or raises when it is one of `raising`.
CallHook(overridden, raising, hook, call_args, kwargs) ==
    [hook |-> hook, args |-> call_args, kwargs |-> kwargs,
     ret |-> IF hook \notin overridden THEN "None"
             ELSE IF hook \in raising THEN "<raised>"
             ELSE hook \o "()"]

HookError(hook) == [type |-> "Exception", msg |-> hook]
NotAMapping ==
    [type |-> "TypeError", msg |-> "argument after ** must be a mapping"]

\* (mutant) the loss stage run on every call
LossRequested_always(compute_loss) == TRUE

\* line 106: if compute_loss
LossRequested(compute_loss) == compute_loss

\* the arguments forward hands to inference and to _get_generative_input
InferenceArgs(tensors, inference_inputs) == <<inference_inputs>>
GenerativeInputArgs(tensors, inference_outputs) == <<tensors, inference_outputs>>

Aborted(log, exc) == [log |-> log, raised |-> Some(exc), ret |-> <<>>]

\* AbstractVAE.forward
Forward(overridden, raising, tensors, kw, compute_loss) ==
    LET inference_kwargs == _get_dict_if_none(kw.inference_kwargs)
        generative_kwargs == _get_dict_if_none(kw.generative_kwargs)
        loss_kwargs == _get_dict_if_none(kw.loss_kwargs)
        get_inference_input_kwargs ==
            _get_dict_if_none(kw.get_inference_input_kwargs)
        get_generative_input_kwargs ==
            _get_dict_if_none(kw.get_generative_input_kwargs)
        c1 == CallHook(overridden, raising, "_get_inference_input",
                       <<tensors>>, get_inference_input_kwargs)
        c2 == CallHook(overridden, raising, "inference",
                       InferenceArgs(tensors, c1.ret), inference_kwargs)
        c3 == CallHook(overridden, raising, "_get_generative_input",
                       GenerativeInputArgs(tensors, c2.ret),
                       get_generative_input_kwargs)
        c4 == CallHook(overridden, raising, "generative", <<c3.ret>>,
                       generative_kwargs)
        c5 == CallHook(overridden, raising, "loss",
                       <<tensors, c2.ret, c4.ret>>, loss_kwargs)
    IN  IF c1.ret = "<raised>" THEN Aborted(<<c1>>, HookError(c1.hook))
        ELSE IF c1.ret = "None" THEN Aborted(<<c1>>, NotAMapping)
        ELSE IF c2.ret = "<raised>" THEN Aborted(<<c1, c2>>, HookError(c2.hook))
        ELSE IF c3.ret = "<raised>"
             THEN Aborted(<<c1, c2, c3>>, HookError(c3.hook))
        ELSE IF c3.ret = "None" THEN Aborted(<<c1, c2, c3>>, NotAMapping)
        ELSE IF c4.ret = "<raised>"
             THEN Aborted(<<c1, c2, c3, c4>>, HookError(c4.hook))
        ELSE IF LossRequested(compute_loss)
             THEN IF c5.ret = "<raised>"
                  THEN Aborted(<<c1, c2, c3, c4, c5>>, HookError(c5.hook))
                  ELSE [log |-> <<c1, c2, c3, c4, c5>>, raised |-> None,
                        ret |-> <<c2.ret, c4.ret, c5.ret>>]
             ELSE [log |-> <<c1, c2, c3, c4>>, raised |-> None,
                   ret |-> <<c2.ret, c4.ret>>]

AbstractVAE_init ==
    /\ instance = None
    /\ instance' = Some(AbstractVAE_new(cls))
    /\ UNCHANGED <<cls, fwd, n_forward, loaderVars, samplerVars, lossVars>>

\* the keyword-override arguments of a call: all left unset, or all given
KwargsArgs ==
    { [inference_kwargs |-> None, generative_kwargs |-> None,
       loss_kwargs |-> None, get_inference_input_kwargs |-> None,
       get_generative_input_kwargs |-> None],
      [inference_kwargs |-> Some("inference_kwargs"),
       generative_kwargs |-> Some("generative_kwargs"),
       loss_kwargs |-> Some("loss_kwargs"),
       get_inference_input_kwargs |-> Some("get_inference_input_kwargs"),
       get_generative_input_kwargs |-> Some("get_generative_input_kwargs")] }

AbstractVAE_forward ==
    /\ instance # None
    /\ instance[1].ok
    /\ n_forward < MaxForward
    /\ \E compute_loss \in BOOLEAN, kw \in KwargsArgs,
          raising \in SUBSET (cls \ {"sample"}) :
          fwd' = Some([compute_loss |-> compute_loss, kw |-> kw,
                       out |-> Forward(cls, raising, "tensors", kw,
                                       compute_loss)])
    /\ n_forward' = n_forward + 1
    /\ UNCHANGED <<cls, instance, loaderVars, samplerVars, lossVars>>

InitVAE ==
    /\ LoaderIdle /\ SamplerIdle /\ LossIdle
    /\ cls \in SUBSET Hooks
    /\ instance = None
    /\ fwd = None
    /\ n_forward = 0

NextVAE == AbstractVAE_init \/ AbstractVAE_forward

SpecVAE == InitVAE /\ [][NextVAE]_vars

\* ------------------------------------------------- sampler properties
RECURSIVE Concat(_)
Concat(bs) == IF bs = <<>> THEN <<>> ELSE Head(bs) \o Concat(Tail(bs))

RECURSIVE SumSizes(_)
SumSizes(bs) == IF bs = <<>> THEN 0 ELSE Len(Head(bs)) + SumSizes(Tail(bs))

Count(v, s) == Cardinality({k \in 1..Len(s) : s[k] = v})

\* ceil(n / b) and floor(n / b), by their defining inequalities
CeilDiv(n, b) == CHOOSE k \in 0..n : k * b >= n /\ (k = 0 \/ (k - 1) * b < n)
FloorDiv(n, b) == CHOOSE k \in 0..n : k * b <= n /\ n < (k + 1) * b

SamplerN == Len(sampler[1].indices.data)
SamplerB == sampler[1].batch_size

\* C1: every traversal of a sampler over n >= 1 indices with batch size b,
\* the first and any later one, yields exactly ceil(n/b) batches, each of
\* size at most b and all but the last of size b, whose sizes sum to n and
\* which together hold every supplied index exactly once; without shuffle
\* their concatenation is the supplied index sequence in its order.
C1_IterateCoversAll ==
    (sampler # None /\ exhausted /\ SamplerN >= 1) =>
        /\ Len(yielded) = CeilDiv(SamplerN, SamplerB)
        /\ \A k \in 1..Len(yielded) :
              /\ Len(yielded[k]) <= SamplerB
              /\ k < Len(yielded) => Len(yielded[k]) = SamplerB
        /\ SumSizes(yielded) = SamplerN
        /\ \A v \in 0..MaxIdx \cup {sampler[1].indices.data[k] :
                                       k \in 1..SamplerN} :
              Count(v, Concat(yielded)) = Count(v, sampler[1].indices.data)
        /\ (sampler[1].shuffle = FALSE =>
              Concat(yielded) = sampler[1].indices.data)

\* a second traversal of a shuffling sampler, finished, with a short last batch
C1_Witness ==
    /\ sampler # None /\ exhausted /\ traversals = 2
    /\ sampler[1].shuffle = TRUE
    /\ SamplerN > SamplerB /\ SamplerN % SamplerB # 0
    /\ Concat(yielded) # sampler[1].indices.data

\* C9: __len__ returns floor(n/b), which is one less than the number of
\* batches a traversal yields when n mod b # 0 and equal to it otherwise.
C9_LengthIsFloor ==
    (sampler # None /\ len_result # None) =>
        /\ len_result[1] = FloorDiv(SamplerN, SamplerB)
        /\ exhausted =>
              IF SamplerN % SamplerB # 0
              THEN Len(yielded) = len_result[1] + 1
              ELSE Len(yielded) = len_result[1]

C9_Witness ==
    /\ sampler # None /\ len_result # None /\ exhausted
    /\ SamplerN % SamplerB # 0
    /\ Len(yielded) = len_result[1] + 1
    /\ len_result[1] >= 1

\* -------------------------------------------------- loader properties
CallArgs == args[1]

\* the FieldSpec a call resolves to: the override if one is supplied,
\* otherwise the five defaults
ResolvedFieldSpec ==
    IF CallArgs.data_and_attributes # None
    THEN CallArgs.data_and_attributes[1]
    ELSE << [key |-> "X", value |-> "float32"],
            [key |-> "batch", value |-> "int64"],
            [key |-> "local_l_mean", value |-> "float32"],
            [key |-> "local_l_var", value |-> "float32"],
            [key |-> "labels", value |-> "int64"] >>

AbsentKeys ==
    {ResolvedFieldSpec[k].key : k \in 1..Len(ResolvedFieldSpec)}
        \ adata.data_registry

\* C2: constructing a loader on a container without an attached registry
\* fails with the not-configured error whatever the other arguments are,
\* and no loader and no sampler come out of the attempt.
C2_NoRegistryFails ==
    (args # None /\ ~adata.uns_scvi) =>
        /\ error = Some(NotConfiguredError)
        /\ loader = None
        /\ sampler = None

\* the attempt on a bare container with a FieldSpec override given
C2_Witness ==
    /\ args # None /\ ~adata.uns_scvi
    /\ CallArgs.data_and_attributes # None
    /\ AbsentKeys # {}
    /\ CallArgs.indices # None
    /\ error = Some(NotConfiguredError)

\* C3: on a container with a registry, construction fails with the
\* missing-field error whenever a key of the resolved FieldSpec is absent
\* from the registry, before any dataset view or sampler exists, and passes
\* validation exactly when every key is present.
C3_MissingFieldFails ==
    (args # None /\ adata.uns_scvi) =>
        IF AbsentKeys # {}
        THEN /\ error # None
             /\ error[1].type = MissingFieldError("").type
             /\ error[1].msg = MissingFieldError("").msg
             /\ error[1].key \in AbsentKeys
             /\ loader = None
             /\ sampler = None
        ELSE /\ error = None
             /\ loader # None
             /\ sampler # None

\* an override whose first key is registered and whose second is not
C3_Witness ==
    /\ args # None /\ adata.uns_scvi
    /\ CallArgs.data_and_attributes # None
    /\ Len(ResolvedFieldSpec) = 2
    /\ ResolvedFieldSpec[1].key \in adata.data_registry
    /\ ResolvedFieldSpec[2].key \notin adata.data_registry
    /\ error = Some(MissingFieldError(ResolvedFieldSpec[2].key))

\* C6: the sampler a loader builds shuffles as the caller's flag says when
\* no indices are given, over the full range 0..len(dataset)-1, and always
\* shuffles when indices are given, whatever the flag.
C6_ShufflePolicy ==
    (loader # None) =>
        /\ sampler # None
        /\ sampler[1].shuffle = loader[1].sampler_kwargs.shuffle
        /\ IF CallArgs.indices = None
           THEN /\ sampler[1].shuffle = CallArgs.shuffle
                /\ Len(sampler[1].indices.data) = loader[1].dataset.len
                /\ \A k \in 1..loader[1].dataset.len :
                      sampler[1].indices.data[k] = k - 1
           ELSE sampler[1].shuffle = TRUE

\* indices given with shuffle=False: the sampler shuffles all the same
C6_Witness ==
    /\ loader # None /\ sampler # None
    /\ CallArgs.indices # None
    /\ Len(CallArgs.indices[1].data) >= 2
    /\ CallArgs.shuffle = FALSE
    /\ sampler[1].shuffle = TRUE

\* C7: for a boolean mask of the dataset's length given as indices, in
\* whatever form, the sampler's indices are the positions where the mask is
\* true, in increasing order; positions given as indices are handed over
\* unchanged.
C7_MaskIsWhere ==
    (loader # None /\ CallArgs.indices # None) =>
        LET given == CallArgs.indices[1]
            got == sampler[1].indices
        IN  IF given.elem = "bool"
            THEN /\ got.elem = "int64"
                 /\ {got.data[k] : k \in 1..Len(got.data)}
                       = {p \in 0..(Len(given.data) - 1) : given.data[p + 1] = 1}
                 /\ \A j, k \in 1..Len(got.data) :
                       j < k => got.data[j] < got.data[k]
            ELSE got.data = given.data

\* C8: the FieldSpec that configures the loader's dataset view is the
\* resolved FieldSpec that was validated against the registry; with no
\* override it is the five defaults.
C8_DatasetGetsResolvedSpec ==
    (loader # None) =>
        /\ loader[1]._data_and_attributes = ResolvedFieldSpec
        /\ loader[1].dataset.getitem_tensors = Some(ResolvedFieldSpec)

\* ---------------------------------------------------- loss properties
RECURSIVE SumOfValues(_)
SumOfValues(items) ==
    IF items = <<>> THEN 0
    ELSE items[Len(items)].value + SumOfValues(SubSeq(items, 1, Len(items) - 1))

\* what reading a category must return, from the constructor argument alone
ExpectedRead(arg) == IF arg.isdict THEN SumOfValues(arg.items) ELSE arg.bare

\* C10: reading a category returns the sum of that category's terms: a bare
\* value is read back as itself, a mapping as the sum of its values, each
\* category independently of the other three, on a first read and on any
\* later one.
C10_ReadIsSum ==
    (last_read # None) =>
        /\ last_read[1].name = "loss" =>
              last_read[1].value = ExpectedRead(loss_args[1].loss)
        /\ last_read[1].name = "reconstruction_loss" =>
              last_read[1].value = ExpectedRead(loss_args[1].reconstruction_loss)
        /\ last_read[1].name = "kl_local" =>
              last_read[1].value = ExpectedRead(loss_args[1].kl_local)
        /\ last_read[1].name = "kl_global" =>
              last_read[1].value = ExpectedRead(loss_args[1].kl_global)

\* a repeated read of a two-term mapping whose neighbours hold other values
C10_Witness ==
    /\ last_read # None /\ reads = 2
    /\ last_read[1].name = "reconstruction_loss"
    /\ loss_args[1].reconstruction_loss.isdict
    /\ Len(loss_args[1].reconstruction_loss.items) = 2
    /\ last_read[1].value = 2
    /\ ~loss_args[1].kl_local.isdict /\ loss_args[1].kl_local.bare = 1
    /\ ExpectedRead(loss_args[1].loss) = 0
    /\ ExpectedRead(loss_args[1].kl_global) = 0

\* ----------------------------------------------------- VAE properties
StageOrder == <<"_get_inference_input", "inference", "_get_generative_input",
                "generative", "loss">>

\* C5: a forward call runs gather-inference-input, inference,
\* gather-generative-input, generative in this order, each once and each on
\* the previous stage's output, then loss once if and only if compute_loss;
\* it returns the triple of the inference, generative and loss results when
\* compute_loss is set and the pair of the first two otherwise.
C5_ForwardStages ==
    (fwd # None) =>
        LET o == fwd[1].out
            log == o.log
            n == Len(log)
        IN  /\ n <= 5
            /\ \A k \in 1..n : log[k].hook = StageOrder[k]
            /\ ~fwd[1].compute_loss => n <= 4
            /\ n >= 1 => log[1].args = <<"tensors">>
            /\ n >= 2 => log[2].args = <<log[1].ret>>
            /\ n >= 3 => log[3].args = <<"tensors", log[2].ret>>
            /\ n >= 4 => log[4].args = <<log[3].ret>>
            /\ n >= 5 => log[5].args = <<"tensors", log[2].ret, log[4].ret>>
            /\ o.raised = None =>
                  IF fwd[1].compute_loss
                  THEN n = 5 /\ o.ret = <<log[2].ret, log[4].ret, log[5].ret>>
                  ELSE n = 4 /\ o.ret = <<log[2].ret, log[4].ret>>

\* both kinds of call on a complete model, one after the other
C5_Witness ==
    /\ fwd # None /\ cls = Hooks /\ n_forward = 2
    /\ fwd[1].out.raised = None
    /\ fwd[1].compute_loss
    /\ fwd[1].out.ret = <<"inference()", "generative()", "loss()">>

CapabilityNotImplemented(exc) ==
    exc # None /\ exc[1].msg = "Can't instantiate abstract class"

\* C4: a class that leaves one of the six hooks unimplemented, the base
\* class included, fails to instantiate or fails on its first forward call
\* with the capability-not-implemented error.
C4_MissingHookFails ==
    (Hooks \ cls # {} /\ instance # None) =>
        \/ CapabilityNotImplemented(instance[1].raised)
        \/ /\ cls # {}
           /\ n_forward >= 1 => CapabilityNotImplemented(fwd[1].out.raised)
====
